---- MODULE Spec2Model ----
(***************************************************************************)
(* A model of the HTML parsing service: ParserService (parser.service.ts)  *)
(* with its chunker, DOM walker, content store, sanitizer and              *)
(* orchestrator.                                                           *)
(*                                                                         *)
(* Text is a sequence of symbols.  A symbol is a one-character string; the *)
(* exceptions are "nbsp" (the code point U+00A0) and the stored file names *)
(* (table_<digest>.txt, image_<digest>.jpg), which are kept as one symbol  *)
(* each: they hold no whitespace, bracket, ampersand or angle bracket, so  *)
(* no pattern of the sanitizer matches inside them.                        *)
(*                                                                         *)
(* A parsed document is the tree node-html-parser returns: a root element  *)
(* (tagName null, written "") whose childNodes are the top-level nodes.    *)
(***************************************************************************)
EXTENDS Integers, Sequences, FiniteSets, TLC

VARIABLES san, br, chk, scan, fs, dirs, now, env

vars == <<san, br, chk, scan, fs, dirs, now, env>>

(***************************************************************************)
(* Bounds and program constants                                            *)
(***************************************************************************)
\* longest top-level child list of a document handed to the chunker alone
MaxTop == 5

\* const MAX_CHUNK_SIZE of the 100-character variant of the service
MAX_CHUNK_SIZE == 100

\* const MAX_CHUNK_SIZE of parser.service.ts
MAX_CHUNK_SIZE_LARGE == 3000

\* const TEXT_TYPE_NODE
TEXT_TYPE_NODE == 3

\* nodeType of an HTMLElement in node-html-parser (NodeType.ELEMENT_NODE)
ELEMENT_TYPE_NODE == 1

(***************************************************************************)
(* Sequences                                                               *)
(***************************************************************************)
SeqsUpTo(S, n) == UNION {[1..k -> S] : k \in 0..n}

RECURSIVE Flatten(_)
Flatten(ss) == IF ss = <<>> THEN <<>> ELSE Head(ss) \o Flatten(Tail(ss))

RECURSIVE SumSeq(_)
SumSeq(ns) == IF ns = <<>> THEN 0 ELSE Head(ns) + SumSeq(Tail(ns))

Fill(n) == [i \in 1..n |-> "x"]

(***************************************************************************)
(* Nodes of node-html-parser                                               *)
(***************************************************************************)
TextNode(t) ==
    [nodeType |-> TEXT_TYPE_NODE, tagName |-> "", src |-> "", rawText |-> t,
     childNodes |-> <<>>, seed |-> FALSE]

Element(tag, kids) ==
    [nodeType |-> ELEMENT_TYPE_NODE, tagName |-> tag, src |-> "", rawText |-> <<>>,
     childNodes |-> kids, seed |-> FALSE]

ImgElement(s) ==
    [nodeType |-> ELEMENT_TYPE_NODE, tagName |-> "IMG", src |-> s, rawText |-> <<>>,
     childNodes |-> <<>>, seed |-> FALSE]

\* the root element parse() returns: tagName null, the parsed nodes as children
RootElement(kids) == Element("", kids)

IsHTMLElement(n) == n.nodeType = ELEMENT_TYPE_NODE

\* parse('<div></div>'): a root holding one empty div.  The field seed marks
\* this div as made by the chunker, not copied from the document.
SeedContainer == RootElement(<<[Element("DIV", <<>>) EXCEPT !.seed = TRUE]>>)

\* parse(node.outerHTML): a fresh root holding a copy of the node
ParseOuterHTML(node) == RootElement(<<node>>)

\* node.outerHTML.length
RECURSIVE OuterHTMLLength(_)
OuterHTMLLength(n) ==
    LET inner == SumSeq([i \in 1..Len(n.childNodes) |-> OuterHTMLLength(n.childNodes[i])])
    IN  IF n.nodeType = TEXT_TYPE_NODE THEN Len(n.rawText)
        ELSE IF n.tagName = "" THEN inner
        ELSE IF n.tagName = "IMG" THEN Len("<img") + Len(" src=\"") + Len(n.src) + Len("\">")
        ELSE 2 * Len(n.tagName) + 5 + inner

(***************************************************************************)
(* Text                                                                    *)
(***************************************************************************)
\* the characters JavaScript's \s and String.prototype.trim treat as space
IsSpace(c) == c \in {" ", "\t", "\n", "\r", "nbsp"}

RECURSIVE TrimStart(_)
TrimStart(s) == IF s # <<>> /\ IsSpace(Head(s)) THEN TrimStart(Tail(s)) ELSE s

RECURSIVE TrimEnd(_)
TrimEnd(s) ==
    IF s # <<>> /\ IsSpace(s[Len(s)]) THEN TrimEnd(SubSeq(s, 1, Len(s) - 1)) ELSE s

\* String.prototype.trim
trim(s) == TrimEnd(TrimStart(s))

MatchesAt(s, i, pat) ==
    /\ i + Len(pat) - 1 <= Len(s)
    /\ SubSeq(s, i, i + Len(pat) - 1) = pat

\* s.replace(/pat/g, rep) for a literal pattern: leftmost, non-overlapping
RECURSIVE ReplaceAllFrom(_, _, _, _)
ReplaceAllFrom(s, i, pat, rep) ==
    IF i > Len(s) THEN <<>>
    ELSE IF MatchesAt(s, i, pat) THEN rep \o ReplaceAllFrom(s, i + Len(pat), pat, rep)
    ELSE <<s[i]>> \o ReplaceAllFrom(s, i + 1, pat, rep)

ReplaceAll(s, pat, rep) == ReplaceAllFrom(s, 1, pat, rep)

LowerCase(c) ==
    CASE c = "D" -> "d" [] c = "O" -> "o" [] c = "C" -> "c" [] c = "T" -> "t"
      [] c = "Y" -> "y" [] c = "P" -> "p" [] c = "E" -> "e" [] c = "H" -> "h"
      [] c = "M" -> "m" [] c = "L" -> "l" [] OTHER -> c

DoctypePattern ==
    <<"<", "!", "d", "o", "c", "t", "y", "p", "e", " ", "h", "t", "m", "l", ">">>

MatchesDoctypeAt(s, i) ==
    /\ i + Len(DoctypePattern) - 1 <= Len(s)
    /\ \A k \in 1..Len(DoctypePattern) : LowerCase(s[i + k - 1]) = DoctypePattern[k]

\* s.replace(/<!DOCTYPE html>/i, ''): the first match only
RemoveDoctype(s) ==
    LET hits == {i \in 1..Len(s) : MatchesDoctypeAt(s, i)}
    IN  IF hits = {} THEN s
        ELSE LET i == CHOOSE h \in hits : \A g \in hits : h <= g
             IN  SubSeq(s, 1, i - 1) \o SubSeq(s, i + Len(DoctypePattern), Len(s))

\* the index after the run of whitespace that starts at i
RECURSIVE SpaceRunEnd(_, _)
SpaceRunEnd(s, i) == IF i <= Len(s) /\ IsSpace(s[i]) THEN SpaceRunEnd(s, i + 1) ELSE i

ImagePrefix == <<"[", "I", "M", "A", "G", "E", ":">>
TablePrefix == <<"[", "T", "A", "B", "L", "E", ":">>

\* s.replace(/\s*\[IMAGE:/g, '\n[IMAGE:'): the greedy \s* takes the whole run
\* of whitespace, and no shorter run can be followed by "["
RECURSIVE NewlineBeforeFrom(_, _, _)
NewlineBeforeFrom(s, i, prefix) ==
    IF i > Len(s) THEN <<>>
    ELSE LET j == SpaceRunEnd(s, i)
         IN  IF MatchesAt(s, j, prefix)
             THEN <<"\n">> \o prefix \o NewlineBeforeFrom(s, j + Len(prefix), prefix)
             ELSE <<s[i]>> \o NewlineBeforeFrom(s, i + 1, prefix)

NewlineBefore(s, prefix) == NewlineBeforeFrom(s, 1, prefix)

\* s.replace(/\n\s*\n/g, '\n'): from a newline, the greedy \s* backtracks to the
\* last newline of the run of whitespace that follows
RECURSIVE CollapseNewlinesFrom(_, _)
CollapseNewlinesFrom(s, i) ==
    IF i > Len(s) THEN <<>>
    ELSE LET j  == SpaceRunEnd(s, i + 1)
             nl == {k \in (i + 1)..(j - 1) : s[k] = "\n"}
         IN  IF s[i] = "\n" /\ nl # {}
             THEN <<"\n">> \o CollapseNewlinesFrom(s, (CHOOSE k \in nl : \A m \in nl : m <= k) + 1)
             ELSE <<s[i]>> \o CollapseNewlinesFrom(s, i + 1)

\* mutant: /\n\n/g, a pair of newlines at a time
CollapseNewlinesPairs(s) == ReplaceAll(s, <<"\n", "\n">>, <<"\n">>)

CollapseNewlines(s) == CollapseNewlinesFrom(s, 1)

(***************************************************************************)
(* Sanitizer: ParserService.sanitizeContent                                *)
(***************************************************************************)
DecodeEntities(s) ==
    LET a == ReplaceAll(s, <<"nbsp">>, <<" ">>)
        b == ReplaceAll(a, <<"&", "n", "b", "s", "p", ";">>, <<" ">>)
        c == ReplaceAll(b, <<"&", "a", "m", "p", ";">>, <<"&">>)
        d == ReplaceAll(c, <<"&", "l", "t", ";">>, <<"<">>)
        e == ReplaceAll(d, <<"&", "g", "t", ";">>, <<">">>)
        f == ReplaceAll(e, <<"&", "q", "u", "o", "t", ";">>, <<"\"">>)
    IN  ReplaceAll(f, <<"&", "#", "3", "9", ";">>, <<"'">>)

\* mutant: the replacement for [TABLE: is left out
PlaceMarkersImageOnly(s) == NewlineBefore(s, ImagePrefix)

PlaceMarkers(s) == NewlineBefore(NewlineBefore(s, ImagePrefix), TablePrefix)

sanitizeContent(content) ==
    CollapseNewlines(PlaceMarkers(DecodeEntities(RemoveDoctype(content))))

(***************************************************************************)
(* Content store: calculateHash, saveToFile, saveContent                   *)
(***************************************************************************)
\* SHA-256 is taken to be collision-free: the digest is an injective encoding
\* of the content, and none of its characters is one the sanitizer looks for.
HexCode(c) ==
    CASE c = "\n" -> "%0a" [] c = "," -> "%2c" [] c = " " -> "%20"
      [] c = "%" -> "%25" [] c = "nbsp" -> "%a0" [] OTHER -> c

RECURSIVE calculateHash(_)
calculateHash(content) ==
    IF content = <<>> THEN "" ELSE HexCode(Head(content)) \o calculateHash(Tail(content))

TableFilename(csvContent) == "table_" \o calculateHash(csvContent) \o ".txt"

ImageFilename(imageContent) == "image_" \o calculateHash(imageContent) \o ".jpg"

ResultFilename == "result.txt"

\* path.join(folderPath, filename)
JoinPath(folderPath, filename) == <<folderPath, filename>>

\* mutant: the file is opened for appending (flag 'a')
writeFileSyncAppend(files, filePath, content) ==
    [p \in DOMAIN files \cup {filePath} |->
       IF p # filePath THEN files[p]
       ELSE IF p \in DOMAIN files THEN files[p] \o content
       ELSE content]

\* fs.writeFileSync(filePath, content): creates the file or replaces its content
writeFileSync(files, filePath, content) ==
    [p \in DOMAIN files \cup {filePath} |-> IF p = filePath THEN content ELSE files[p]]

\* mutant: nothing is written
saveToFileWritesNothing(files, filename, content, folderPath) == files

saveToFile(files, filename, content, folderPath) ==
    writeFileSync(files, JoinPath(folderPath, filename), content)

saveContent(files, content, folderPath) ==
    writeFileSync(files, JoinPath(folderPath, ResultFilename), content)

\* new URL(url).toString(): a bare origin gets its path "/"
NormalizeUrl(url) == IF url = "https://example.com" THEN "https://example.com/" ELSE url

\* the folder name `${urlHash}_${timestamp}` of createFolderForResults
FolderName(url, timestamp) ==
    calculateHash(<<NormalizeUrl(url)>>) \o "_" \o ToString(timestamp)

(***************************************************************************)
(* Tables and images                                                       *)
(***************************************************************************)
RECURSIVE Join(_, _)
Join(parts, sep) ==
    IF parts = <<>> THEN <<>>
    ELSE IF Len(parts) = 1 THEN Head(parts)
    ELSE Head(parts) \o sep \o Join(Tail(parts), sep)

\* the descendants of a node in document order
RECURSIVE Descendants(_)
Descendants(n) ==
    Flatten([i \in 1..Len(n.childNodes) |->
                <<n.childNodes[i]>> \o Descendants(n.childNodes[i])])

HasTag(tags, n) == n.tagName \in tags

querySelectorAll(n, tags) ==
    LET all  == Descendants(n)
        hits == {i \in 1..Len(all) : HasTag(tags, all[i])}
        RECURSIVE Pick(_)
        Pick(i) == IF i > Len(all) THEN <<>>
                   ELSE IF i \in hits THEN <<all[i]>> \o Pick(i + 1) ELSE Pick(i + 1)
    IN  Pick(1)

\* node.text: the text of the node and its descendants (the documents of this
\* model hold no entity inside a table cell, so none is decoded here)
RECURSIVE TextOf(_)
TextOf(n) ==
    IF n.nodeType = TEXT_TYPE_NODE THEN n.rawText
    ELSE Flatten([i \in 1..Len(n.childNodes) |-> TextOf(n.childNodes[i])])

CellText(cell) == ReplaceAll(trim(TextOf(cell)), <<"\n">>, <<" ">>)

RowContent(row) ==
    LET cells == querySelectorAll(row, {"TH", "TD"})
    IN  Join([i \in 1..Len(cells) |-> CellText(cells[i])], <<",">>)

convertTableToCSV(tableNode) ==
    LET rows == querySelectorAll(tableNode, {"TR"})
    IN  Flatten([i \in 1..Len(rows) |-> RowContent(rows[i]) \o <<"\n">>])

AbsoluteSrcs == {"https://other.test/b.png"}

UrlOrigin(url) == IF url = "https://other.test/" THEN "https://other.test" ELSE "https://example.com"

\* new URL(src, originalUrl).href
extractImageUrl(imgElement, originalUrl) ==
    IF imgElement.src \in AbsoluteSrcs THEN imgElement.src
    ELSE UrlOrigin(originalUrl) \o imgElement.src

TableMarker(filename) == TablePrefix \o <<filename, "]", "\n">>

ImageMarker(filename) == ImagePrefix \o <<filename, "]", "\n">>

(***************************************************************************)
(* DOM walker: extractContentWithTablesAndImages and traverseNode.  The    *)
(* recursion is a stack of frames; a frame is one running loop over the    *)
(* children of its node, i the child it is at and content what it has      *)
(* gathered.  The bottom frame is extractContentWithTablesAndImages.       *)
(***************************************************************************)
\* mutant: a table is walked like any other element
BranchWalksTable(node) ==
    IF node.tagName = "IMG" THEN "image"
    ELSE IF node.nodeType = TEXT_TYPE_NODE THEN "text"
    ELSE IF node.tagName # "SCRIPT" /\ node.tagName # "STYLE" THEN "children"
    ELSE "none"

\* mutant: script and style elements are walked like any other element
BranchWalksScript(node) ==
    IF node.tagName = "TABLE" THEN "table"
    ELSE IF node.tagName = "IMG" THEN "image"
    ELSE IF node.nodeType = TEXT_TYPE_NODE THEN "text"
    ELSE "children"

\* the branch of traverseNode a node takes
Branch(node) ==
    IF node.tagName = "TABLE" THEN "table"
    ELSE IF node.tagName = "IMG" THEN "image"
    ELSE IF node.nodeType = TEXT_TYPE_NODE THEN "text"
    ELSE IF node.tagName # "SCRIPT" /\ node.tagName # "STYLE" THEN "children"
    ELSE "none"

Frame(node) == [node |-> node, i |-> 1, content |-> <<>>]

TopFrame(stack) == stack[Len(stack)]

LoopDone(stack) == TopFrame(stack).i > Len(TopFrame(stack).node.childNodes)

CurrentNode(stack) == TopFrame(stack).node.childNodes[TopFrame(stack).i]

\* content += <what traverseNode(child) returned>, and on to the next child
Gather(stack, text) ==
    [stack EXCEPT ![Len(stack)] = [@ EXCEPT !.content = @ \o text, !.i = @ + 1]]

\* traverseNode(child) starts its own loop over the child's children
Enter(stack, node) == Append(stack, Frame(node))

\* mutant: the caller puts what the child returned before its own content
LeavePrepends(stack) ==
    LET rest == SubSeq(stack, 1, Len(stack) - 1)
    IN  [rest EXCEPT ![Len(rest)] =
           [@ EXCEPT !.content = TopFrame(stack).content \o @, !.i = @ + 1]]

\* return content: the caller gathers it
Leave(stack) == Gather(SubSeq(stack, 1, Len(stack) - 1), TopFrame(stack).content)

textLine(node) == trim(node.rawText) \o <<"\n">>

(***************************************************************************)
(* Chunker: ParserService.chunkHTML                                        *)
(***************************************************************************)
ChunkerStart == [chunks |-> <<>>, currentChunk |-> SeedContainer, currentSize |-> 0]

appendChild(parent, child) ==
    [parent EXCEPT !.childNodes = Append(@, child)]

\* mutant: the oversized node is pushed without flushing the accumulator first
appendNodeToChunkNoFlushBeforeOversized(st, node, chunkSize) ==
    LET nodeLen == OuterHTMLLength(node)
    IN  IF nodeLen > chunkSize
        THEN [st EXCEPT !.chunks = Append(@, ParseOuterHTML(node))]
        ELSE IF st.currentSize + nodeLen > chunkSize /\ st.currentSize > 0
        THEN [chunks |-> Append(st.chunks, st.currentChunk),
              currentChunk |-> appendChild(SeedContainer, ParseOuterHTML(node)),
              currentSize |-> nodeLen]
        ELSE [st EXCEPT !.currentChunk = appendChild(@, ParseOuterHTML(node)),
                        !.currentSize = @ + nodeLen]

\* mutant: the accumulator is flushed only once it is already over the size
appendNodeToChunkLateFlush(st, node, chunkSize) ==
    LET nodeLen == OuterHTMLLength(node)
        st1 == IF st.currentSize > chunkSize
               THEN [chunks |-> Append(st.chunks, st.currentChunk),
                     currentChunk |-> SeedContainer,
                     currentSize |-> 0]
               ELSE st
    IN  IF nodeLen > chunkSize
        THEN [st1 EXCEPT !.chunks = Append(@, ParseOuterHTML(node))]
        ELSE [st1 EXCEPT !.currentChunk = appendChild(@, ParseOuterHTML(node)),
                         !.currentSize = @ + nodeLen]

\* mutant: the oversized node joins the accumulator like any other
appendNodeToChunkNoOwnChunk(st, node, chunkSize) ==
    LET nodeLen == OuterHTMLLength(node)
        st1 == IF st.currentSize + nodeLen > chunkSize /\ st.currentSize > 0
               THEN [chunks |-> Append(st.chunks, st.currentChunk),
                     currentChunk |-> SeedContainer,
                     currentSize |-> 0]
               ELSE st
    IN  [st1 EXCEPT !.currentChunk = appendChild(@, ParseOuterHTML(node)),
                    !.currentSize = @ + nodeLen]

\* mutant: the accumulator is closed before every node, fitting or not
appendNodeToChunkClosesEarly(st, node, chunkSize) ==
    LET nodeLen == OuterHTMLLength(node)
        st1 == IF st.currentSize > 0
               THEN [chunks |-> Append(st.chunks, st.currentChunk),
                     currentChunk |-> SeedContainer,
                     currentSize |-> 0]
               ELSE st
    IN  IF nodeLen > chunkSize
        THEN [st1 EXCEPT !.chunks = Append(@, ParseOuterHTML(node))]
        ELSE [st1 EXCEPT !.currentChunk = appendChild(@, ParseOuterHTML(node)),
                         !.currentSize = @ + nodeLen]

appendNodeToChunk(st, node, chunkSize) ==
    LET nodeLen == OuterHTMLLength(node)
        st1 == IF st.currentSize + nodeLen > chunkSize /\ st.currentSize > 0
               THEN [chunks |-> Append(st.chunks, st.currentChunk),
                     currentChunk |-> SeedContainer,
                     currentSize |-> 0]
               ELSE st
    IN  IF nodeLen > chunkSize
        THEN [st1 EXCEPT !.chunks = Append(@, ParseOuterHTML(node))]
        ELSE [st1 EXCEPT !.currentChunk = appendChild(@, ParseOuterHTML(node)),
                         !.currentSize = @ + nodeLen]

\* one iteration of traverseNodes' forEach
traverseNodesStep(st, child, chunkSize) ==
    IF IsHTMLElement(child) THEN appendNodeToChunk(st, child, chunkSize) ELSE st

\* "Add the last chunk if it has content"
addLastChunk(st) ==
    IF Len(st.currentChunk.childNodes) > 0
    THEN Append(st.chunks, st.currentChunk)
    ELSE st.chunks

RECURSIVE traverseNodes(_, _, _)
traverseNodes(st, kids, chunkSize) ==
    IF kids = <<>> THEN st
    ELSE traverseNodes(traverseNodesStep(st, Head(kids), chunkSize), Tail(kids), chunkSize)

chunkHTML(element, chunkSize) ==
    addLastChunk(traverseNodes(ChunkerStart, element.childNodes, chunkSize))

(***************************************************************************)
(* The text processor's replies and JSON                                   *)
(***************************************************************************)
ReplyA == "{\"title\":\"A\"}"
ReplyB == "{ \"title\": \"B\" }"
ReplyNotJson == "Sorry, no JSON"

\* what LlmService.processText may resolve to
LlmReplies == {ReplyA, ReplyB, ReplyNotJson}

\* JSON.parse: the value, or a SyntaxError
JSON_parse(text) ==
    CASE text = ReplyA -> [ok |-> TRUE, value |-> [title |-> "A"]]
      [] text = ReplyB -> [ok |-> TRUE, value |-> [title |-> "B"]]
      [] OTHER -> [ok |-> FALSE, value |-> [title |-> ""]]

StringifyValue(v) == "{\"title\":\"" \o v.title \o "\"}"

\* JSON.stringify of an array of parsed values
JSON_stringify(values) ==
    <<"[">> \o Join([i \in 1..Len(values) |-> <<StringifyValue(values[i])>>], <<",">>)
            \o <<"]">>

(***************************************************************************)
(* Documents, URLs and image bodies of the scan requests                   *)
(***************************************************************************)
Chars(a, b, c, d, e) == <<a, b, c, d, e>>

PHello == Element("P", <<TextNode(Chars("H", "e", "l", "l", "o"))>>)

Cell(c) == Element("TD", <<TextNode(<<c>>)>>)

Row(a, b) == Element("TR", <<Cell(a), Cell(b)>>)

\* a 2x2 table, 73 characters
Table2x2 == Element("TABLE", <<Row("1", "2"), Row("3", "4")>>)

\* a 3x2 table, 102 characters: alone over MAX_CHUNK_SIZE
Table3x2 == Element("TABLE", <<Row("1", "2"), Row("3", "4"), Row("5", "6")>>)

ImgA == ImgElement("/a.png")

ImgB == ImgElement("https://other.test/b.png")

\* a table whose cell holds an image and a text
TableNested ==
    Element("TABLE", <<Element("TR", <<Element("TD", <<ImgA, TextNode(<<"7">>)>>)>>)>>)

DivMixed ==
    Element("DIV", <<TextNode(<<" ", "a", "\n">>), ImgA,
                     Element("SPAN", <<TextNode(<<"b">>), TableNested>>)>>)

ScriptWithText == Element("SCRIPT", <<TextNode(<<"v", "=", "1">>)>>)

\* a table no other element of a document holds
Table1x1 == Element("TABLE", <<Element("TR", <<Cell("9")>>)>>)

\* a style element that holds a text, an image and a table
StyleWithAll == Element("STYLE", <<TextNode(<<"x">>), ImgB, Table1x1>>)

DocEmpty == RootElement(<<>>)
DocTextOnly == RootElement(<<TextNode(<<"h", "i">>)>>)
DocExample == RootElement(<<PHello, ImgA, Table2x2>>)
DocOversized == RootElement(<<PHello, Table3x2, TextNode(<<"\n">>), PHello>>)
DocNested == RootElement(<<DivMixed, ScriptWithText>>)
DocTwoImages == RootElement(<<ImgA, ImgB, Table2x2>>)

\* the paragraph, the image and the 2x2 table in one element: one chunk
DocExampleInDiv == RootElement(<<Element("DIV", <<PHello, ImgA, Table2x2>>)>>)

\* a style element two levels down, between a paragraph and an image
DocHidden ==
    RootElement(<<Element("DIV", <<PHello, Element("SPAN", <<StyleWithAll>>), ImgA>>)>>)

\* a table whose cell holds an image, a text and a table
TableDeep ==
    Element("TABLE", <<Element("TR", <<Element("TD", <<ImgB, TextNode(<<"7">>), Table1x1>>)>>)>>)

DocTableDeep == RootElement(<<PHello, TableDeep>>)

\* the same table and image in two chunks
DocRepeat == RootElement(<<Table2x2, ImgA, Table2x2, ImgA>>)

Docs ==
    {DocEmpty, DocTextOnly, DocExample, DocOversized, DocNested, DocTwoImages,
     DocExampleInDiv, DocRepeat, DocHidden, DocTableDeep}

\* the document of the scans that run side by side: one image
SmallDocs == {RootElement(<<ImgA>>)}

Urls == {"https://example.com", "https://example.com/"}

\* what an image URL may answer with
ImageBodies == {<<"ff", "d8">>, <<"89", "50">>}

\* the collaborators of a run: the bodies the image server answers with and
\* the texts the text processor resolves to
Environment == [bodies |-> ImageBodies, replies |-> LlmReplies]

SmallEnvironment == [bodies |-> ImageBodies, replies |-> {ReplyA, ReplyNotJson}]

(***************************************************************************)
(* The chunker run step by step on a document of its own                   *)
(***************************************************************************)
Para(n) == Element("P", <<TextNode(Fill(n))>>)

\* paragraphs of 30, 60 and 120 characters, and a text node between elements
ChunkNodes == {Para(23), Para(53), Para(113), TextNode(<<"\n">>)}

ChunkDocs == {RootElement(kids) : kids \in SeqsUpTo(ChunkNodes, MaxTop)}

ChunkSizes == {0, 60, MAX_CHUNK_SIZE, MAX_CHUNK_SIZE_LARGE}

ChkIdle ==
    [pc |-> "idle", element |-> RootElement(<<>>), chunkSize |-> 0, idx |-> 1,
     st |-> ChunkerStart, result |-> <<>>]

ChunkVisitChild ==
    /\ chk.pc = "forEach"
    /\ chk.idx <= Len(chk.element.childNodes)
    /\ chk' = [chk EXCEPT
                 !.st = traverseNodesStep(@, chk.element.childNodes[chk.idx], chk.chunkSize),
                 !.idx = @ + 1]
    /\ UNCHANGED <<san, br, scan, fs, dirs, now, env>>

ChunkReturn ==
    /\ chk.pc = "forEach"
    /\ chk.idx > Len(chk.element.childNodes)
    /\ chk' = [chk EXCEPT !.pc = "returned", !.result = addLastChunk(chk.st)]
    /\ UNCHANGED <<san, br, scan, fs, dirs, now, env>>

NextChunk == ChunkVisitChild \/ ChunkReturn

(***************************************************************************)
(* The sanitizer applied to a text of its own, and again to what it        *)
(* returned.  The texts are up to MaxPieces pieces of whitespace, a letter *)
(* and the marker prefixes, and up to MaxEntityPieces pieces of entities,  *)
(* their parts and a doctype.                                              *)
(***************************************************************************)
MaxPieces == 5

MaxEntityPieces == 3

MarkerPieces == {<<"a">>, <<" ">>, <<"\n">>, ImagePrefix, TablePrefix}

EntityPieces ==
    {<<"&">>, <<"a", "m", "p", ";">>, <<"&", "a", "m", "p", ";">>, <<"&", "l", "t", ";">>,
     <<"nbsp">>, <<"a">>, <<"\n">>,
     <<"<", "!", "D", "O", "C", "T", "Y", "P", "E", " ", "h", "t", "m", "l", ">">>}

SanInputs ==
    {Flatten(ps) : ps \in SeqsUpTo(MarkerPieces, MaxPieces)}
      \cup {Flatten(ps) : ps \in SeqsUpTo(EntityPieces, MaxEntityPieces)}

SanIdle == [pc |-> "idle", input |-> <<>>, content |-> <<>>, first |-> <<>>, calls |-> 0]

\* content = this.sanitizeContent(content); first keeps the first call's result
ApplySanitize ==
    /\ san.pc = "ready"
    /\ san.calls < 2
    /\ san' = [san EXCEPT !.content = sanitizeContent(@),
                          !.first = IF san.calls = 0 THEN sanitizeContent(san.content) ELSE @,
                          !.calls = @ + 1]
    /\ UNCHANGED <<br, chk, scan, fs, dirs, now, env>>

NextSanitize == ApplySanitize

\* the browser service has launched nothing
BrIdle ==
    [pc |-> "idle", requestDto |-> [url |-> "", auth |-> FALSE], open |-> 0,
     htmlContent |-> RootElement(<<>>), error |-> "", returned |-> <<>>]

(***************************************************************************)
(* Orchestrator: ParserService.getNormalizedContent, one run per scan      *)
(* request.  A run is suspended at each await; its steps between two       *)
(* awaits are the actions below.  outstanding counts the calls to the      *)
(* image server and the text processor that have not settled yet; trace,   *)
(* sent and received record the steps taken, the texts handed to the text  *)
(* processor and its replies.                                              *)
(***************************************************************************)
\* latest value of Date.now()
MaxClock == 1

\* scan requests running side by side
MaxScans == 2

Step(name, chunk) == [step |-> name, chunk |-> chunk]

NewScan(html, url) ==
    [pc |-> "idle", htmlContent |-> html, originalUrl |-> url,
     parsedHtml |-> RootElement(<<>>), folderPath |-> "", chunks |-> <<>>, ci |-> 1,
     stack |-> <<>>, imageUrl |-> "", tableImageTextContent |-> <<>>,
     sanitizedContent |-> <<>>, responses |-> <<>>, returned |-> <<>>,
     outstanding |-> 0, error |-> "", failed |-> 0, trace |-> <<>>, sent |-> <<>>,
     received |-> <<>>]

\* parse(htmlContent): the request's HTML is given as the tree it parses to
parseHtml(htmlContent) == htmlContent

\* the promise of getNormalizedContent rejects
Reject(s, why) == [s EXCEPT !.pc = "rejected", !.error = why]

\* mutant: the failure is caught and the run goes on without the image, the
\* file or the chunk's response
FailCaught(s, why) ==
    LET t == [s EXCEPT !.failed = @ + 1]
    IN  IF s.pc = "llm" THEN [t EXCEPT !.pc = "loop", !.ci = @ + 1]
        ELSE IF s.pc = "save" THEN [t EXCEPT !.pc = "return"]
        ELSE [t EXCEPT !.pc = "walk",
                       !.stack = [@ EXCEPT ![Len(@)] = [@ EXCEPT !.i = @ + 1]]]

\* a fetch, a write or a text-processor call failed: nothing catches it
Fail(s, why) == Reject([s EXCEPT !.failed = @ + 1], why)

Logged(s, name) == [s EXCEPT !.trace = Append(@, Step(name, s.ci))]

Parse ==
  \E r \in DOMAIN scan :
    /\ scan[r].pc = "idle"
    /\ scan' = [scan EXCEPT ![r] =
                  [Logged(@, "Parse") EXCEPT !.pc = "createFolder",
                                             !.parsedHtml = parseHtml(scan[r].htmlContent)]]
    /\ UNCHANGED <<san, br, chk, fs, dirs, now, env>>

createFolderForResults ==
  \E r \in DOMAIN scan :
    /\ scan[r].pc = "createFolder"
    /\ LET folderPath == FolderName(scan[r].originalUrl, now)
       IN  /\ dirs' = dirs \cup {folderPath}
           /\ scan' = [scan EXCEPT ![r] =
                         [Logged(@, "CreateSessionArea") EXCEPT !.pc = "chunk",
                                                                !.folderPath = folderPath]]
    /\ UNCHANGED <<san, br, chk, fs, now, env>>

Chunk ==
  \E r \in DOMAIN scan :
    /\ scan[r].pc = "chunk"
    /\ scan' = [scan EXCEPT ![r] =
                  [Logged(@, "Chunk") EXCEPT
                     !.pc = "loop",
                     !.chunks = chunkHTML(scan[r].parsedHtml, MAX_CHUNK_SIZE)]]
    /\ UNCHANGED <<san, br, chk, fs, dirs, now, env>>

\* mutant: the loop is left after the first chunk
loopHeadFirstChunkOnly(s) ==
    IF s.ci > Len(s.chunks) \/ s.ci > 1 THEN [s EXCEPT !.pc = "save"]
    ELSE IF Len(s.chunks[s.ci].childNodes) = 0 THEN [s EXCEPT !.ci = @ + 1]
    ELSE [Logged(s, "Walk") EXCEPT !.pc = "walk", !.stack = <<Frame(s.chunks[s.ci])>>]

\* the head of `for (const chunk of chunks)`, with its `continue`
loopHead(s) ==
    IF s.ci > Len(s.chunks) THEN [s EXCEPT !.pc = "save"]
    ELSE IF Len(s.chunks[s.ci].childNodes) = 0 THEN [s EXCEPT !.ci = @ + 1]
    ELSE [Logged(s, "Walk") EXCEPT !.pc = "walk", !.stack = <<Frame(s.chunks[s.ci])>>]

ForChunk ==
  \E r \in DOMAIN scan :
    /\ scan[r].pc = "loop"
    /\ scan' = [scan EXCEPT ![r] = loopHead(@)]
    /\ UNCHANGED <<san, br, chk, fs, dirs, now, env>>

AtBranch(r, branch) ==
    /\ scan[r].pc = "walk"
    /\ ~LoopDone(scan[r].stack)
    /\ Branch(CurrentNode(scan[r].stack)) = branch

\* the TABLE branch; ok is whether writeFileSync succeeds
WalkTable ==
  \E r \in DOMAIN scan :
    /\ AtBranch(r, "table")
    /\ LET csvContent == convertTableToCSV(CurrentNode(scan[r].stack))
           filename   == TableFilename(csvContent)
       IN  \E ok \in BOOLEAN :
             IF ok
             THEN /\ fs' = saveToFile(fs, filename, csvContent, scan[r].folderPath)
                  /\ scan' = [scan EXCEPT ![r].stack = Gather(@, TableMarker(filename))]
             ELSE /\ fs' = fs
                  /\ scan' = [scan EXCEPT ![r] = Fail(@, "write")]
    /\ UNCHANGED <<san, br, chk, dirs, now, env>>

\* the state of a run that waits for axios.get
awaitFetch(s, imageUrl) ==
    [s EXCEPT !.pc = "fetch", !.imageUrl = imageUrl, !.outstanding = @ + 1]

\* the IMG branch up to `await this.fetchImage(imageUrl)`
WalkImage ==
  \E r \in DOMAIN scan :
    /\ AtBranch(r, "image")
    /\ scan' = [scan EXCEPT ![r] =
                  awaitFetch(@, extractImageUrl(CurrentNode(scan[r].stack), @.originalUrl))]
    /\ UNCHANGED <<san, br, chk, fs, dirs, now, env>>

\* the image arrives: the rest of the IMG branch
FetchReturn ==
  \E r \in DOMAIN scan :
    /\ scan[r].pc = "fetch"
    /\ \E imageContent \in env.bodies, ok \in BOOLEAN :
         LET filename == ImageFilename(imageContent)
         IN  IF ok
             THEN /\ fs' = saveToFile(fs, filename, imageContent, scan[r].folderPath)
                  /\ scan' = [scan EXCEPT ![r] =
                                [@ EXCEPT !.pc = "walk", !.outstanding = @ - 1,
                                          !.stack = Gather(@, ImageMarker(filename))]]
             ELSE /\ fs' = fs
                  /\ scan' = [scan EXCEPT ![r] =
                                Fail([@ EXCEPT !.outstanding = @ - 1], "write")]
    /\ UNCHANGED <<san, br, chk, dirs, now, env>>

\* axios.get rejects
FetchFail ==
  \E r \in DOMAIN scan :
    /\ scan[r].pc = "fetch"
    /\ scan' = [scan EXCEPT ![r] = Fail([@ EXCEPT !.outstanding = @ - 1], "fetch")]
    /\ UNCHANGED <<san, br, chk, fs, dirs, now, env>>

WalkText ==
  \E r \in DOMAIN scan :
    /\ AtBranch(r, "text")
    /\ scan' = [scan EXCEPT ![r].stack = Gather(@, textLine(CurrentNode(@)))]
    /\ UNCHANGED <<san, br, chk, fs, dirs, now, env>>

WalkChildren ==
  \E r \in DOMAIN scan :
    /\ AtBranch(r, "children")
    /\ scan' = [scan EXCEPT ![r].stack = Enter(@, CurrentNode(@))]
    /\ UNCHANGED <<san, br, chk, fs, dirs, now, env>>

\* script and style: traverseNode returns ''
WalkNone ==
  \E r \in DOMAIN scan :
    /\ AtBranch(r, "none")
    /\ scan' = [scan EXCEPT ![r].stack = Gather(@, <<>>)]
    /\ UNCHANGED <<san, br, chk, fs, dirs, now, env>>

\* traverseNode returns to the loop that called it
WalkLeave ==
  \E r \in DOMAIN scan :
    /\ scan[r].pc = "walk"
    /\ LoopDone(scan[r].stack)
    /\ Len(scan[r].stack) > 1
    /\ scan' = [scan EXCEPT ![r].stack = Leave(@)]
    /\ UNCHANGED <<san, br, chk, fs, dirs, now, env>>

\* extractContentWithTablesAndImages returns combinedContent
WalkDone ==
  \E r \in DOMAIN scan :
    /\ scan[r].pc = "walk"
    /\ LoopDone(scan[r].stack)
    /\ Len(scan[r].stack) = 1
    /\ scan' = [scan EXCEPT ![r] =
                  [@ EXCEPT !.pc = "sanitize", !.stack = <<>>,
                            !.tableImageTextContent = TopFrame(scan[r].stack).content]]
    /\ UNCHANGED <<san, br, chk, fs, dirs, now, env>>
\* mutant: processText is called but not awaited, the loop goes on
invokeTextProcessorNotAwaited(s) ==
    LET sanitizedContent == sanitizeContent(s.tableImageTextContent)
    IN  [Logged(Logged(s, "Sanitize"), "InvokeTextProcessor") EXCEPT
           !.pc = "loop",
           !.ci = @ + 1,
           !.sanitizedContent = sanitizedContent,
           !.sent = Append(@, [chunk |-> s.ci, text |-> sanitizedContent]),
           !.outstanding = @ + 1]

\* mutant: a chunk whose sanitized text is empty is not sent
invokeTextProcessorSkipsEmpty(s) ==
    LET sanitizedContent == sanitizeContent(s.tableImageTextContent)
    IN  IF sanitizedContent = <<>>
        THEN [Logged(s, "Sanitize") EXCEPT !.pc = "loop", !.ci = @ + 1,
                                           !.sanitizedContent = sanitizedContent]
        ELSE [Logged(Logged(s, "Sanitize"), "InvokeTextProcessor") EXCEPT
                !.pc = "llm",
                !.sanitizedContent = sanitizedContent,
                !.sent = Append(@, [chunk |-> s.ci, text |-> sanitizedContent]),
                !.outstanding = @ + 1]

\* sanitizeContent, then processText is called and awaited
invokeTextProcessor(s) ==
    LET sanitizedContent == sanitizeContent(s.tableImageTextContent)
    IN  [Logged(Logged(s, "Sanitize"), "InvokeTextProcessor") EXCEPT
           !.pc = "llm",
           !.sanitizedContent = sanitizedContent,
           !.sent = Append(@, [chunk |-> s.ci, text |-> sanitizedContent]),
           !.outstanding = @ + 1]

Sanitize ==
  \E r \in DOMAIN scan :
    /\ scan[r].pc = "sanitize"
    /\ scan' = [scan EXCEPT ![r] = invokeTextProcessor(@)]
    /\ UNCHANGED <<san, br, chk, fs, dirs, now, env>>

\* mutant: responses.unshift instead of responses.push
collectResponseUnshift(s, response) ==
    LET parsed   == JSON_parse(response)
        received == [s EXCEPT !.outstanding = @ - 1,
                              !.received = Append(@, [chunk |-> s.ci, response |-> response])]
    IN  IF parsed.ok
        THEN [Logged(received, "CollectResponse") EXCEPT
                !.pc = "loop",
                !.responses = <<parsed.value>> \o @,
                !.ci = @ + 1]
        ELSE Reject(received, "SyntaxError")

\* mutant: a reply that is not JSON is caught and the chunk left out
collectResponseSkipsBadJson(s, response) ==
    LET parsed   == JSON_parse(response)
        received == [s EXCEPT !.outstanding = @ - 1,
                              !.received = Append(@, [chunk |-> s.ci, response |-> response])]
    IN  IF parsed.ok
        THEN [Logged(received, "CollectResponse") EXCEPT
                !.pc = "loop",
                !.responses = Append(@, parsed.value),
                !.ci = @ + 1]
        ELSE [received EXCEPT !.pc = "loop", !.ci = @ + 1]

\* responses.push(JSON.parse(response)), and on to the next chunk
collectResponse(s, response) ==
    LET parsed   == JSON_parse(response)
        received == [s EXCEPT !.outstanding = @ - 1,
                              !.received = Append(@, [chunk |-> s.ci, response |-> response])]
    IN  IF parsed.ok
        THEN [Logged(received, "CollectResponse") EXCEPT
                !.pc = "loop",
                !.responses = Append(@, parsed.value),
                !.ci = @ + 1]
        ELSE Reject(received, "SyntaxError")

\* processText resolves
LlmReturn ==
  \E r \in DOMAIN scan :
    /\ scan[r].pc = "llm"
    /\ \E response \in env.replies :
         scan' = [scan EXCEPT ![r] = collectResponse(@, response)]
    /\ UNCHANGED <<san, br, chk, fs, dirs, now, env>>

\* processText rejects
LlmFail ==
  \E r \in DOMAIN scan :
    /\ scan[r].pc = "llm"
    /\ scan' = [scan EXCEPT ![r] = Fail([@ EXCEPT !.outstanding = @ - 1], "llm")]
    /\ UNCHANGED <<san, br, chk, fs, dirs, now, env>>

\* await this.saveContent(originalUrl, JSON.stringify(responses), folderPath)
SaveContent ==
  \E r \in DOMAIN scan :
    /\ scan[r].pc = "save"
    /\ \E ok \in BOOLEAN :
         IF ok
         THEN /\ fs' = saveContent(fs, JSON_stringify(scan[r].responses), scan[r].folderPath)
              /\ scan' = [scan EXCEPT ![r] = [Logged(@, "PersistResult") EXCEPT !.pc = "return"]]
         ELSE /\ fs' = fs
              /\ scan' = [scan EXCEPT ![r] = Fail(@, "write")]
    /\ UNCHANGED <<san, br, chk, dirs, now, env>>

\* return responses
Return ==
  \E r \in DOMAIN scan :
    /\ scan[r].pc = "return"
    /\ scan' = [scan EXCEPT ![r] =
                  [Logged(@, "Return") EXCEPT !.pc = "resolved",
                                             !.returned = scan[r].responses]]
    /\ UNCHANGED <<san, br, chk, fs, dirs, now, env>>

\* time passes
Tick ==
    /\ now < MaxClock
    /\ now' = now + 1
    /\ UNCHANGED <<san, br, chk, scan, fs, dirs, env>>

Next ==
    \/ Tick
    \/ Parse
    \/ createFolderForResults
    \/ Chunk
    \/ ForChunk
    \/ WalkTable
    \/ WalkImage
    \/ FetchReturn
    \/ FetchFail
    \/ WalkText
    \/ WalkChildren
    \/ WalkNone
    \/ WalkLeave
    \/ WalkDone
    \/ Sanitize
    \/ LlmReturn
    \/ LlmFail
    \/ SaveContent
    \/ Return

NoFiles == [p \in {} |-> <<>>]

\* one scan request, any document
Init ==
    /\ san = SanIdle
    /\ br = BrIdle
    /\ chk = ChkIdle
    /\ \E html \in Docs, url \in Urls : scan = <<NewScan(html, url)>>
    /\ fs = NoFiles
    /\ dirs = {}
    /\ now = 0
    /\ env = Environment

Spec == Init /\ [][Next]_vars

\* several scan requests for the same URL side by side, small documents
InitConcurrent ==
    /\ san = SanIdle
    /\ br = BrIdle
    /\ chk = ChkIdle
    /\ scan \in [1..MaxScans -> {NewScan(html, "https://example.com/") : html \in SmallDocs}]
    /\ fs = NoFiles
    /\ dirs = {}
    /\ now = 0
    /\ env = SmallEnvironment

\* a document of one image takes no other branch of traverseNode
NextConcurrent ==
    \/ Tick
    \/ Parse
    \/ createFolderForResults
    \/ Chunk
    \/ ForChunk
    \/ WalkImage
    \/ FetchReturn
    \/ FetchFail
    \/ WalkChildren
    \/ WalkLeave
    \/ WalkDone
    \/ Sanitize
    \/ LlmReturn
    \/ LlmFail
    \/ SaveContent
    \/ Return

SpecConcurrent == InitConcurrent /\ [][NextConcurrent]_vars

\* the sanitizer alone, on any text
InitSanitize ==
    /\ \E x \in SanInputs : san = [SanIdle EXCEPT !.pc = "ready", !.input = x, !.content = x]
    /\ br = BrIdle
    /\ chk = ChkIdle
    /\ scan = <<>>
    /\ fs = NoFiles
    /\ dirs = {}
    /\ now = 0
    /\ env = Environment

SpecSanitize == InitSanitize /\ [][NextSanitize]_vars

\* the chunker alone, on any document and chunk size
InitChunk ==
    /\ san = SanIdle
    /\ br = BrIdle
    /\ \E element \in ChunkDocs, chunkSize \in ChunkSizes :
         chk = [ChkIdle EXCEPT !.pc = "forEach", !.element = element,
                               !.chunkSize = chunkSize]
    /\ scan = <<>>
    /\ fs = NoFiles
    /\ dirs = {}
    /\ now = 0
    /\ env = Environment

SpecChunk == InitChunk /\ [][NextChunk]_vars

(***************************************************************************)
(* BrowserService.scanPage: one scan request from the launch of its        *)
(* browser to its return.  open counts the browser instances launched and  *)
(* not closed.  Each awaited call of puppeteer either resolves or rejects; *)
(* scanPage has no try/catch, so a rejection ends it.                      *)
(***************************************************************************)
\* the requests: a URL, with or without username and password
Requests == {[url |-> "https://example.com/", auth |-> a] : a \in BOOLEAN}

\* what page.content() may give
Pages == {DocNested, DocEmpty}

brRejects(b, why) == [b EXCEPT !.pc = "rejected", !.error = why]

\* const browser = await this.launchBrowser(requestDto)
launchBrowser ==
    /\ br.pc = "launch"
    /\ \E ok \in BOOLEAN :
         br' = IF ok THEN [br EXCEPT !.pc = "newPage", !.open = @ + 1]
               ELSE brRejects(br, "launch")
    /\ UNCHANGED <<san, chk, scan, fs, dirs, now, env>>

\* const page = await browser.newPage()
newPage ==
    /\ br.pc = "newPage"
    /\ \E ok \in BOOLEAN :
         br' = IF ok THEN [br EXCEPT !.pc = "authenticate"] ELSE brRejects(br, "newPage")
    /\ UNCHANGED <<san, chk, scan, fs, dirs, now, env>>

\* await this.authenticatePage(page, requestDto)
authenticatePage ==
    /\ br.pc = "authenticate"
    /\ \E ok \in BOOLEAN :
         br' = IF ok \/ ~br.requestDto.auth THEN [br EXCEPT !.pc = "setup"]
               ELSE brRejects(br, "authenticate")
    /\ UNCHANGED <<san, chk, scan, fs, dirs, now, env>>

\* await this.setupPage(page)
setupPage ==
    /\ br.pc = "setup"
    /\ \E ok \in BOOLEAN :
         br' = IF ok THEN [br EXCEPT !.pc = "goto"] ELSE brRejects(br, "setup")
    /\ UNCHANGED <<san, chk, scan, fs, dirs, now, env>>

\* navigateToUrl: page.goto with networkidle2, its failure is caught
navigateToUrl ==
    /\ br.pc = "goto"
    /\ \E ok \in BOOLEAN :
         br' = IF ok THEN [br EXCEPT !.pc = "content"] ELSE [br EXCEPT !.pc = "gotoFallback"]
    /\ UNCHANGED <<san, chk, scan, fs, dirs, now, env>>

\* navigateToUrl: the page.goto of the catch block
navigateFallback ==
    /\ br.pc = "gotoFallback"
    /\ \E ok \in BOOLEAN :
         br' = IF ok THEN [br EXCEPT !.pc = "content"] ELSE brRejects(br, "goto")
    /\ UNCHANGED <<san, chk, scan, fs, dirs, now, env>>

\* const htmlContent = await this.extractHtmlContent(page)
extractHtmlContent ==
    /\ br.pc = "content"
    /\ \/ \E html \in Pages : br' = [br EXCEPT !.pc = "normalize", !.htmlContent = html]
       \/ br' = brRejects(br, "content")
    /\ UNCHANGED <<san, chk, scan, fs, dirs, now, env>>

\* this.parserService.getNormalizedContent(htmlContent, requestDto.url) is called
callGetNormalizedContent ==
    /\ br.pc = "normalize"
    /\ br' = [br EXCEPT !.pc = "waiting"]
    /\ scan' = <<NewScan(br.htmlContent, br.requestDto.url)>>
    /\ UNCHANGED <<san, chk, fs, dirs, now, env>>

\* the promise of getNormalizedContent resolves
normalizedContentReturns ==
    /\ br.pc = "waiting"
    /\ scan[1].pc = "resolved"
    /\ br' = [br EXCEPT !.pc = "close"]
    /\ UNCHANGED <<san, chk, scan, fs, dirs, now, env>>

\* the promise of getNormalizedContent rejects
normalizedContentRejects ==
    /\ br.pc = "waiting"
    /\ scan[1].pc = "rejected"
    /\ br' = brRejects(br, scan[1].error)
    /\ UNCHANGED <<san, chk, scan, fs, dirs, now, env>>

\* await browser.close()
closeBrowser ==
    /\ br.pc = "close"
    /\ br' = [br EXCEPT !.pc = "return", !.open = @ - 1]
    /\ UNCHANGED <<san, chk, scan, fs, dirs, now, env>>

\* return jsonContent
returnJsonContent ==
    /\ br.pc = "return"
    /\ br' = [br EXCEPT !.pc = "resolved", !.returned = scan[1].returned]
    /\ UNCHANGED <<san, chk, scan, fs, dirs, now, env>>

NextScanPage ==
    \/ launchBrowser
    \/ newPage
    \/ authenticatePage
    \/ setupPage
    \/ navigateToUrl
    \/ navigateFallback
    \/ extractHtmlContent
    \/ callGetNormalizedContent
    \/ normalizedContentReturns
    \/ normalizedContentRejects
    \/ closeBrowser
    \/ returnJsonContent
    \/ Parse
    \/ createFolderForResults
    \/ Chunk
    \/ ForChunk
    \/ WalkTable
    \/ WalkImage
    \/ FetchReturn
    \/ FetchFail
    \/ WalkText
    \/ WalkChildren
    \/ WalkNone
    \/ WalkLeave
    \/ WalkDone
    \/ Sanitize
    \/ LlmReturn
    \/ LlmFail
    \/ SaveContent
    \/ Return

InitScanPage ==
    /\ san = SanIdle
    /\ \E requestDto \in Requests : br = [BrIdle EXCEPT !.pc = "launch", !.requestDto = requestDto]
    /\ chk = ChkIdle
    /\ scan = <<>>
    /\ fs = NoFiles
    /\ dirs = {}
    /\ now = 0
    /\ env = Environment

BrowserSteps ==
    \/ launchBrowser \/ newPage \/ authenticatePage \/ setupPage \/ navigateToUrl
    \/ navigateFallback \/ extractHtmlContent \/ callGetNormalizedContent
    \/ normalizedContentReturns \/ normalizedContentRejects \/ closeBrowser
    \/ returnJsonContent

ParserSteps ==
    \/ Parse \/ createFolderForResults \/ Chunk \/ ForChunk \/ WalkTable \/ WalkImage
    \/ FetchReturn \/ FetchFail \/ WalkText \/ WalkChildren \/ WalkNone \/ WalkLeave
    \/ WalkDone \/ LlmReturn \/ LlmFail \/ SaveContent \/ Return

SanitizeReady == \E r \in DOMAIN scan : scan[r].pc = "sanitize"

\* the event loop runs every continuation that is ready, and every awaited
\* call settles: weak fairness of the steps of scanPage, of the steps of
\* getNormalizedContent, and of Sanitize (enabled exactly when a run is at
\* its sanitize step)
FairScanPage ==
    /\ WF_vars(BrowserSteps)
    /\ WF_vars(ParserSteps)
    /\ ([]<>~SanitizeReady \/ []<><<Sanitize>>_vars)

SpecScanPage == InitScanPage /\ [][NextScanPage]_vars /\ FairScanPage
(***************************************************************************)
(* Properties of the chunker                                               *)
(***************************************************************************)
\* the nodes of a chunk that were copied from the document, in order
DocNodesIn(chunk) ==
    Flatten([i \in 1..Len(chunk.childNodes) |->
               LET c == chunk.childNodes[i]
               IN  IF c.seed THEN <<>>
                   ELSE IF c.tagName = "" THEN c.childNodes
                   ELSE <<c>>])

HeldNodes(chunks) == Flatten([j \in 1..Len(chunks) |-> DocNodesIn(chunks[j])])

HeldSize(chunk) ==
    LET held == DocNodesIn(chunk)
    IN  SumSeq([i \in 1..Len(held) |-> OuterHTMLLength(held[i])])

ElementChildren(element) ==
    LET kids == element.childNodes
        RECURSIVE Pick(_)
        Pick(i) == IF i > Len(kids) THEN <<>>
                   ELSE IF IsHTMLElement(kids[i]) THEN <<kids[i]>> \o Pick(i + 1)
                   ELSE Pick(i + 1)
    IN  Pick(1)

Oversized(node) == OuterHTMLLength(node) > chk.chunkSize

FitsOrAlone(chunk) ==
    \/ HeldSize(chunk) <= chk.chunkSize
    \/ Len(DocNodesIn(chunk)) = 1

\* C2: at every step of chunkHTML the running counter is the size of the
\* nodes in the accumulator, and the accumulator and every chunk flushed or
\* returned holds at most chunkSize characters of nodes unless it is a single
\* node that is alone larger; five nodes of 30 with chunkSize 100 give at
\* least two chunks.
C2_ChunkSizeBound ==
    /\ chk.st.currentSize = HeldSize(chk.st.currentChunk)
    /\ chk.st.currentSize <= chk.chunkSize \/ chk.st.currentSize = 0
    /\ \A j \in 1..Len(chk.st.chunks) : FitsOrAlone(chk.st.chunks[j])
    /\ \A j \in 1..Len(chk.result) : FitsOrAlone(chk.result[j])
    /\ ( /\ chk.pc = "returned"
         /\ chk.chunkSize = 100
         /\ chk.element.childNodes = [i \in 1..5 |-> Para(23)] )
       => Len(chk.result) >= 2

\* five paragraphs of 30 characters were chunked with chunkSize 100
C2_Witness ==
    /\ chk.pc = "returned"
    /\ chk.chunkSize = 100
    /\ chk.element.childNodes = [i \in 1..5 |-> Para(23)]
    /\ Len(chk.result) = 2
    /\ HeldSize(chk.result[1]) = 90

\* the chunk that holds the p-th element child, given that the chunks hold
\* the element children in order
RECURSIVE ChunkOfPosition(_, _, _)
ChunkOfPosition(chunks, j, p) ==
    IF j > Len(chunks) THEN 0
    ELSE IF p <= Len(DocNodesIn(chunks[j])) THEN j
    ELSE ChunkOfPosition(chunks, j + 1, p - Len(DocNodesIn(chunks[j])))

IsPrefix(a, b) == Len(a) <= Len(b) /\ SubSeq(b, 1, Len(a)) = a

Last(q) == q[Len(q)]

\* the indices of the chunks that are not skipped, in order
Processed(chunks) ==
    LET RECURSIVE Pick(_)
        Pick(j) == IF j > Len(chunks) THEN <<>>
                   ELSE IF Len(chunks[j].childNodes) = 0 THEN Pick(j + 1)
                   ELSE <<j>> \o Pick(j + 1)
    IN  Pick(1)

\* the steps of a whole run over the chunks, in the order of section 4.5
StepsOf(chunks) ==
    <<Step("Parse", 1), Step("CreateSessionArea", 1), Step("Chunk", 1)>>
    \o Flatten([k \in 1..Len(Processed(chunks)) |->
                  LET j == Processed(chunks)[k]
                  IN  <<Step("Walk", j), Step("Sanitize", j),
                        Step("InvokeTextProcessor", j), Step("CollectResponse", j)>>])
    \o <<Step("PersistResult", Len(chunks) + 1), Step("Return", Len(chunks) + 1)>>

ResultPath(s) == JoinPath(s.folderPath, ResultFilename)

\* C4: the steps of a run are taken in the order Parse, CreateSessionArea,
\* Chunk, then per chunk Walk, Sanitize, InvokeTextProcessor, CollectResponse,
\* then PersistResult, then Return; a chunk is walked, and its images are
\* fetched, only between its Walk step and its Sanitize step; at most one
\* image fetch or text-processor call is outstanding; a resolved run took
\* every step.
C4_StrictlySequential ==
    \A r \in DOMAIN scan :
      LET s == scan[r]
      IN  /\ IsPrefix(s.trace, StepsOf(s.chunks))
          /\ s.outstanding <= 1
          /\ s.outstanding = 1 <=> s.pc \in {"fetch", "llm"}
          /\ s.pc \in {"walk", "fetch", "sanitize"} => Last(s.trace) = Step("Walk", s.ci)
          /\ s.pc = "llm" => Last(s.trace) = Step("InvokeTextProcessor", s.ci)
          /\ s.pc = "return" => Len(s.responses) = Len(Processed(s.chunks))
          /\ s.pc = "resolved" => s.trace = StepsOf(s.chunks)

\* a run over two chunks with an image resolved
C4_Witness ==
    \E r \in DOMAIN scan :
      /\ scan[r].pc = "resolved"
      /\ Len(scan[r].chunks) = 2
      /\ \E p \in DOMAIN fs : p[2] = ImageFilename(<<"ff", "d8">>)

\* C5: a resolved run returns one parsed response per processed chunk, the
\* k-th being the parse of the reply to the call made for the k-th processed
\* chunk, and result.txt in its folder holds JSON.stringify of what it returns.
C5_ResponsesInChunkOrder ==
    \A r \in DOMAIN scan :
      LET s == scan[r]
          processed == Processed(s.chunks)
      IN  s.pc = "resolved" =>
            /\ Len(s.returned) = Len(processed)
            /\ Len(s.sent) = Len(processed)
            /\ Len(s.received) = Len(processed)
            /\ \A k \in 1..Len(processed) :
                 /\ s.sent[k].chunk = processed[k]
                 /\ s.received[k].chunk = processed[k]
                 /\ s.returned[k] = JSON_parse(s.received[k].response).value
            /\ ResultPath(s) \in DOMAIN fs
            /\ fs[ResultPath(s)] = JSON_stringify(s.returned)

\* a run resolved with two different responses
C5_Witness ==
    \E r \in DOMAIN scan :
      /\ scan[r].pc = "resolved"
      /\ Len(scan[r].returned) = 2
      /\ scan[r].returned[1] # scan[r].returned[2]

\* C6, as stated: a chunk that holds no node copied from the document is
\* neither walked nor sent to the text processor, and a document with no
\* top-level element children gives no text-processor call and an empty result.
C6_SeedChunkSkipped ==
    \A r \in DOMAIN scan :
      LET s == scan[r]
      IN  /\ s.pc \in {"walk", "fetch", "sanitize", "llm"} =>
               DocNodesIn(s.chunks[s.ci]) # <<>>
          /\ (s.pc = "resolved" /\ ElementChildren(s.parsedHtml) = <<>>) =>
               (s.sent = <<>> /\ s.returned = <<>>)

\* C7: once the text processor has replied with a text that is not JSON, the
\* run is rejected with the SyntaxError: it was the last reply, no later
\* chunk was walked or sent, nothing is returned and result.txt is not written.
C7_BadJsonRejects ==
    \A r \in DOMAIN scan :
      LET s == scan[r]
      IN  \A k \in 1..Len(s.received) :
            ~JSON_parse(s.received[k].response).ok =>
              /\ k = Len(s.received)
              /\ s.pc = "rejected"
              /\ s.error = "SyntaxError"
              /\ Len(s.sent) = k
              /\ Last(s.trace) = Step("InvokeTextProcessor", s.received[k].chunk)
              /\ Len(s.responses) = k - 1
              /\ s.returned = <<>>
              /\ ResultPath(s) \notin DOMAIN fs

\* the second of three chunks got a reply that is not JSON
C7_Witness ==
    \E r \in DOMAIN scan :
      /\ scan[r].pc = "rejected"
      /\ scan[r].error = "SyntaxError"
      /\ Len(scan[r].responses) = 1
      /\ Len(scan[r].chunks) = 3
\* C8: a failed image fetch, file write or text-processor call rejects the
\* run at once and for good: the step that fails stores nothing, emits no
\* marker, passes no node and no chunk, and collects nothing; the run fails
\* once (no retry), returns nothing and writes no result.txt.
C8_FailureRejects ==
    /\ [](\A r \in DOMAIN scan :
            LET s == scan[r]
            IN  s.failed > 0 =>
                  /\ s.pc = "rejected"
                  /\ s.failed = 1
                  /\ s.error \in {"fetch", "write", "llm"}
                  /\ s.outstanding = 0
                  /\ s.returned = <<>>
                  /\ ResultPath(s) \notin DOMAIN fs)
    /\ [][\A r \in DOMAIN scan :
            LET s == scan[r]
                t == scan'[r]
            IN  /\ s.pc = "rejected" => t = s
                /\ (s.failed = 0 /\ t.failed > 0) =>
                     /\ fs' = fs
                     /\ t.stack = s.stack
                     /\ t.ci = s.ci
                     /\ t.responses = s.responses
                     /\ t.sent = s.sent]_vars

\* the image of the second chunk could not be fetched, after the first
\* chunk's response was collected and the second chunk's table was stored
C8_Witness ==
    \E r \in DOMAIN scan :
      /\ scan[r].pc = "rejected"
      /\ scan[r].error = "fetch"
      /\ Len(scan[r].responses) = 1
      /\ scan[r].ci = 2
      /\ Branch(CurrentNode(scan[r].stack)) = "image"
      /\ TopFrame(scan[r].stack).content = <<>>

Contains(text, symbol) == \E i \in 1..Len(text) : text[i] = symbol

\* C9: a stored artifact is named by its kind and the digest of its content,
\* so the same content of the same kind has the same name; no step removes a
\* file or changes the content of an artifact: storing an artifact whose file
\* exists leaves the files and their contents as they are.
C9_ContentAddressedStore ==
    /\ [](\A p \in DOMAIN fs :
            p[2] # ResultFilename =>
              p[2] \in {TableFilename(fs[p]), ImageFilename(fs[p])})
    /\ [][\A p \in DOMAIN fs :
            /\ p \in DOMAIN fs'
            /\ p[2] # ResultFilename => fs'[p] = fs[p]]_vars

\* the same table and the same image were stored from two chunks of one run
C9_Witness ==
    \E r \in DOMAIN scan :
      LET s == scan[r]
          table == TableFilename(convertTableToCSV(Table2x2))
          image == ImageFilename(<<"ff", "d8">>)
      IN  /\ s.pc = "resolved"
          /\ Len(s.sent) = 2
          /\ \A k \in 1..2 : Contains(s.sent[k].text, table) /\ Contains(s.sent[k].text, image)
          /\ {p \in DOMAIN fs : p[1] = s.folderPath} =
               {JoinPath(s.folderPath, n) : n \in {table, image, ResultFilename}}

(***************************************************************************)
(* Properties of the DOM walker                                            *)
(***************************************************************************)
\* the nodes under n that produce output, in depth-first document order:
\* tables, images and text nodes outside every table, script and style
RECURSIVE Producers(_)
Producers(n) ==
    Flatten([i \in 1..Len(n.childNodes) |->
               LET c == n.childNodes[i]
               IN  IF c.tagName \in {"TABLE", "IMG"} \/ c.nodeType = TEXT_TYPE_NODE
                   THEN <<c>>
                   ELSE IF c.tagName \in {"SCRIPT", "STYLE"} THEN <<>>
                   ELSE Producers(c)])

AnyImage == "image_*"

\* what a producing node contributes, the image's file name left open
Produced(c) ==
    IF c.tagName = "TABLE" THEN TableMarker(TableFilename(convertTableToCSV(c)))
    ELSE IF c.tagName = "IMG" THEN ImageMarker(AnyImage)
    ELSE trim(c.rawText) \o <<"\n">>

InDocumentOrder(n) ==
    Flatten([k \in 1..Len(Producers(n)) |-> Produced(Producers(n)[k])])

ImageNames == {ImageFilename(b) : b \in ImageBodies}

Masked(text) ==
    [i \in 1..Len(text) |-> IF text[i] \in ImageNames THEN AnyImage ELSE text[i]]

\* what the frames of a walk have gathered so far, outermost first
GatheredSoFar(stack) == Flatten([f \in 1..Len(stack) |-> stack[f].content])

HelloImageTable ==
    <<"H", "e", "l", "l", "o", "\n">> \o ImageMarker(AnyImage)
      \o TableMarker(TableFilename(<<"1", ",", "2", "\n", "3", ",", "4", "\n">>))

\* C10: what a walk has gathered is at every step a prefix of, and at its end
\* equal to, the text lines and markers of the producing nodes in depth-first
\* document order; the paragraph Hello, an image and a 2x2 table give the
\* line Hello, the image marker and the table marker in this order.
C10_DocumentOrder ==
    \A r \in DOMAIN scan :
      LET s == scan[r]
      IN  /\ s.pc \in {"walk", "fetch"} =>
               IsPrefix(Masked(GatheredSoFar(s.stack)), InDocumentOrder(s.chunks[s.ci]))
          /\ s.pc \in {"sanitize", "llm"} =>
               Masked(s.tableImageTextContent) = InDocumentOrder(s.chunks[s.ci])
          /\ (s.pc = "sanitize" /\ s.parsedHtml = DocExampleInDiv /\ s.ci = 1) =>
               Masked(s.tableImageTextContent) = HelloImageTable

\* the walk over the paragraph, the image and the table is done
C10_Witness ==
    \E r \in DOMAIN scan :
      /\ scan[r].pc = "sanitize"
      /\ scan[r].parsedHtml = DocExampleInDiv
      /\ scan[r].ci = 1
      /\ Masked(scan[r].tableImageTextContent) = HelloImageTable
\* the descendants of the script and style elements under n
RECURSIVE Hidden(_)
Hidden(n) ==
    Flatten([i \in 1..Len(n.childNodes) |->
               LET c == n.childNodes[i]
               IN  IF c.tagName \in {"SCRIPT", "STYLE"} THEN Descendants(c) ELSE Hidden(c)])

Occurs(pat, text) == \E i \in 1..Len(text) : MatchesAt(text, i, pat)

\* every text a run has gathered, extracted or sent
TextsOf(s) ==
    {GatheredSoFar(s.stack), s.tableImageTextContent}
      \cup {s.sent[k].text : k \in 1..Len(s.sent)}

\* C11: the walker never enters a script or style element; for every node h
\* under one, at any depth, no text of the run holds h's line or h's table
\* marker, h's image is never fetched and h's table is never stored.
C11_ScriptStyleSkipped ==
    \A r \in DOMAIN scan :
      LET s == scan[r]
          hidden == Hidden(s.parsedHtml)
      IN  /\ \A f \in 1..Len(s.stack) : s.stack[f].node.tagName \notin {"SCRIPT", "STYLE"}
          /\ \A k \in 1..Len(hidden) :
               LET h == hidden[k]
               IN  /\ h.tagName = "IMG" => s.imageUrl # extractImageUrl(h, s.originalUrl)
                   /\ h.tagName = "TABLE" =>
                        LET filename == TableFilename(convertTableToCSV(h))
                        IN  /\ JoinPath(s.folderPath, filename) \notin DOMAIN fs
                            /\ \A t \in TextsOf(s) : ~Contains(t, filename)
                   /\ h.nodeType = TEXT_TYPE_NODE =>
                        \A t \in TextsOf(s) : ~Occurs(textLine(h), t)

\* the walk is over the div whose style element, passed by, holds three nodes
C11_Witness ==
    \E r \in DOMAIN scan :
      /\ scan[r].pc = "sanitize"
      /\ scan[r].parsedHtml = DocHidden
      /\ scan[r].ci = 1
      /\ Len(Hidden(scan[r].parsedHtml)) >= 3
      /\ Masked(scan[r].tableImageTextContent) =
           <<"H", "e", "l", "l", "o", "\n">> \o ImageMarker(AnyImage)
      /\ {p[2] : p \in DOMAIN fs} \subseteq ImageNames
(***************************************************************************)
(* Properties of the sanitizer                                             *)
(***************************************************************************)
EntityPatterns ==
    {<<"nbsp">>, <<"&", "n", "b", "s", "p", ";">>, <<"&", "a", "m", "p", ";">>,
     <<"&", "l", "t", ";">>, <<"&", "g", "t", ";">>, <<"&", "q", "u", "o", "t", ";">>,
     <<"&", "#", "3", "9", ";">>}

\* the text holds nothing the sanitizer decodes or removes
Decoded(text) ==
    /\ \A pat \in EntityPatterns : ~Occurs(pat, text)
    /\ \A i \in 1..Len(text) : ~MatchesDoctypeAt(text, i)

\* C12 as stated: sanitizeContent(sanitizeContent(x)) = sanitizeContent(x)
\* for every text x.
C12_Idempotent == san.calls = 2 => san.content = san.first

\* C12: when sanitizeContent(x) holds no entity, no U+00A0 and no doctype,
\* sanitizeContent(sanitizeContent(x)) = sanitizeContent(x).
C12_IdempotentOnDecoded ==
    (san.calls = 2 /\ Decoded(san.first)) => san.content = san.first

\* a text with a marker in mid-line and a run of newlines was sanitized twice
C12_Witness ==
    /\ san.calls = 2
    /\ san.input = <<"a", " ">> \o ImagePrefix \o <<"\n", "\n">>
    /\ san.first = <<"a", "\n">> \o ImagePrefix \o <<"\n">>
    /\ Decoded(san.first)
    /\ san.content = san.first

IsMarkerAt(text, i) == MatchesAt(text, i, ImagePrefix) \/ MatchesAt(text, i, TablePrefix)

\* C13: in what sanitizeContent returns, every [IMAGE: and every [TABLE: has
\* a newline right before it.
C13_MarkerStartsLine ==
    san.calls >= 1 =>
      \A i \in 1..Len(san.content) :
        IsMarkerAt(san.content, i) => (i > 1 /\ san.content[i - 1] = "\n")

\* a marker at the start, a run of newlines and a marker in mid-line,
\* sanitized once
C13_Witness ==
    /\ san.calls = 1
    /\ san.input = TablePrefix \o <<"\n", "\n", "a">> \o ImagePrefix
    /\ san.content = <<"\n">> \o TablePrefix \o <<"\n", "a", "\n">> \o ImagePrefix
(***************************************************************************)
(* Session areas                                                           *)
(***************************************************************************)
\* C14: any two scan requests that have created their session area have
\* different areas, also two requests for the same URL side by side.
C14_OwnSessionArea ==
    \A a, b \in DOMAIN scan :
      (a # b /\ scan[a].folderPath # "" /\ scan[b].folderPath # "")
        => scan[a].folderPath # scan[b].folderPath

(***************************************************************************)
(* Greedy chunks                                                           *)
(***************************************************************************)
\* the size of the first document node of a chunk, 0 for a chunk without one
FirstSize(chunk) ==
    IF DocNodesIn(chunk) = <<>> THEN 0 ELSE OuterHTMLLength(DocNodesIn(chunk)[1])

Greedy(chunks, chunkSize) ==
    \A j \in 1..(Len(chunks) - 1) :
      HeldSize(chunks[j]) + FirstSize(chunks[j + 1]) > chunkSize

\* C15: for every chunk followed by another chunk, closed so far or returned,
\* its size plus the size of the first node of the following chunk exceeds
\* chunkSize.
C15_ClosedOnlyWhenFull ==
    /\ Greedy(chk.st.chunks, chk.chunkSize)
    /\ chk.pc = "returned" => Greedy(chk.result, chk.chunkSize)

\* paragraphs of 30, 60, 30 and 60 characters, chunk size 100: the chunk of
\* 90 is followed by another of 90
C15_Witness ==
    /\ chk.pc = "returned"
    /\ chk.chunkSize = MAX_CHUNK_SIZE
    /\ chk.element.childNodes = <<Para(23), Para(53), Para(23), Para(53)>>
    /\ Len(chk.result) = 2
    /\ HeldSize(chk.result[1]) = 90
    /\ FirstSize(chk.result[2]) = 30
(***************************************************************************)
(* Markers and artifacts                                                   *)
(***************************************************************************)
\* the file names the markers of a text refer to
References(text) ==
    {text[i + Len(ImagePrefix)] : i \in {k \in 1..Len(text) : IsMarkerAt(text, k)}}

\* C16: at every point of a run, every marker in what the walk has gathered
\* or returned names a file that exists in the run's session area.
C16_NoDanglingReference ==
    \A r \in DOMAIN scan :
      LET s == scan[r]
      IN  \A name \in References(GatheredSoFar(s.stack)) \cup References(s.tableImageTextContent) :
            JoinPath(s.folderPath, name) \in DOMAIN fs

\* in mid-walk, an image marker and a table marker are gathered
C16_Witness ==
    \E r \in DOMAIN scan :
      LET s == scan[r]
          refs == References(GatheredSoFar(s.stack))
      IN  /\ s.pc = "walk"
          /\ refs \cap ImageNames # {}
          /\ TableFilename(convertTableToCSV(Table2x2)) \in refs
          /\ \A name \in refs : JoinPath(s.folderPath, name) \in DOMAIN fs

\* the producing nodes of all chunks of a run
ChunkProducers(s) == Flatten([j \in 1..Len(s.chunks) |-> Producers(s.chunks[j])])

\* the nodes below the tables that the walker comes to
RECURSIVE InsideTables(_)
InsideTables(n) ==
    Flatten([i \in 1..Len(n.childNodes) |->
               LET c == n.childNodes[i]
               IN  IF c.tagName = "TABLE" THEN Descendants(c)
                   ELSE IF c.tagName \in {"SCRIPT", "STYLE", "IMG"} THEN <<>>
                   ELSE InsideTables(c)])

TableNamesOf(nodes) ==
    {TableFilename(convertTableToCSV(nodes[k])) : k \in {j \in 1..Len(nodes) : nodes[j].tagName = "TABLE"}}

Count(pat, text) == Cardinality({i \in 1..Len(text) : MatchesAt(text, i, pat)})

\* C17: the walker never enters a table; a walked chunk's output has one
\* table marker per table it comes to, every table file of the session area
\* is that of such a table, and a node inside a table (one that is not also
\* reached outside of tables) gives no line, no marker, no fetch and no file.
C17_TableNotWalked ==
    \A r \in DOMAIN scan :
      LET s == scan[r]
          reached == ChunkProducers(s)
          inside == InsideTables(s.parsedHtml)
          same(h) == \E k \in 1..Len(reached) :
                       /\ reached[k].tagName = h.tagName
                       /\ reached[k].nodeType = h.nodeType
                       /\ Produced(reached[k]) = Produced(h)
                       /\ reached[k].src = h.src
      IN  /\ \A f \in 1..Len(s.stack) : s.stack[f].node.tagName # "TABLE"
          /\ s.pc \in {"sanitize", "llm"} =>
               /\ Count(TablePrefix, s.tableImageTextContent)
                    = Cardinality({k \in 1..Len(Producers(s.chunks[s.ci])) :
                                     Producers(s.chunks[s.ci])[k].tagName = "TABLE"})
               /\ \A name \in TableNamesOf(Producers(s.chunks[s.ci])) :
                    /\ Contains(s.tableImageTextContent, name)
                    /\ JoinPath(s.folderPath, name) \in DOMAIN fs
          /\ \A p \in DOMAIN fs :
               (p[1] = s.folderPath /\ p[2] \notin ImageNames \cup {ResultFilename})
                 => p[2] \in TableNamesOf(reached)
          /\ \A k \in 1..Len(inside) :
               LET h == inside[k]
               IN  ~same(h) =>
                     /\ h.tagName = "IMG" => s.imageUrl # extractImageUrl(h, s.originalUrl)
                     /\ h.tagName = "TABLE" =>
                          \A t \in TextsOf(s) :
                            ~Contains(t, TableFilename(convertTableToCSV(h)))
                     /\ h.nodeType = TEXT_TYPE_NODE =>
                          \A t \in TextsOf(s) : ~Occurs(textLine(h), t)

\* the chunk with the table that holds an image, a text and a table is
\* walked: one marker, one file, nothing fetched
C17_Witness ==
    \E r \in DOMAIN scan :
      LET s == scan[r]
          name == TableFilename(convertTableToCSV(TableDeep))
      IN  /\ s.pc = "sanitize"
          /\ s.parsedHtml = DocTableDeep
          /\ Count(TablePrefix, s.tableImageTextContent) = 1
          /\ Contains(s.tableImageTextContent, name)
          /\ Count(ImagePrefix, s.tableImageTextContent) = 0
          /\ s.imageUrl = ""
          /\ {p[2] : p \in DOMAIN fs} = {name}
(***************************************************************************)
(* Calls of the text processor                                             *)
(***************************************************************************)
\* the chunks with at least one child node
WithChildren(chunks) == {j \in 1..Len(chunks) : Len(chunks[j].childNodes) >= 1}

\* C18: no chunk is sent to the text processor twice, and once the loop over
\* the chunks is done, every chunk with at least one child node was sent
\* once, whatever its text, and gave one response.
C18_OneCallPerChunk ==
    \A r \in DOMAIN scan :
      LET s == scan[r]
      IN  /\ \A k, l \in 1..Len(s.sent) : k < l => s.sent[k].chunk < s.sent[l].chunk
          /\ \A k \in 1..Len(s.sent) : s.sent[k].chunk \in WithChildren(s.chunks)
          /\ s.pc \in {"save", "return", "resolved"} =>
               /\ {s.sent[k].chunk : k \in 1..Len(s.sent)} = WithChildren(s.chunks)
               /\ Len(s.responses) = Cardinality(WithChildren(s.chunks))

\* a run resolved whose second chunk holds a script element only and was
\* sent as the empty text
C18_Witness ==
    \E r \in DOMAIN scan :
      LET s == scan[r]
      IN  /\ s.pc = "resolved"
          /\ Len(s.chunks) = 2
          /\ DocNodesIn(s.chunks[2]) = <<ScriptWithText>>
          /\ Len(s.sent) = 2
          /\ s.sent[2].text = <<>>
          /\ Len(s.returned) = 2
C20_BrowserEventuallyClosed == (br.open > 0) ~> (br.open = 0)
\* scanPage always ends, resolved or rejected
ScanPageEnds == <>(br.pc \in {"resolved", "rejected"})
====
